---- MODULE Spec2Model ----
(***************************************************************************)
(* Model of the retrieval engine of weeb-3 (src/src/retrieval.rs).         *)
(*                                                                         *)
(* One invocation of retrieve_chunk is modelled as a state machine whose   *)
(* steps are the stretches of code between its suspension points and lock  *)
(* scopes: the selection scan, the admission (reserve) block and the       *)
(* network exchange with its settlement.  The peer table and the           *)
(* accounting table are shared with the rest of the program, which acts    *)
(* as environment.                                                         *)
(*                                                                         *)
(* The peer table maps an overlay to a PeerId; the model identifies a      *)
(* peer's overlay with its PeerId (one overlay per PeerId).  HashMap       *)
(* iteration order is unspecified: peers are interchangeable, so the       *)
(* order is fixed to ascending id while proximity orders and ledgers are   *)
(* drawn freely for every position of that order.                          *)
(***************************************************************************)
EXTENDS Integers, Sequences, FiniteSets, TLC

\* ---------------------------------------------------------------- bounds
MaxPeers == 2
MaxAcctChanges == 1
MaxFanout == 2          \* child addresses of an intermediate chunk
MaxDepth == 2           \* levels of intermediate chunks of a document
WordBits == 4           \* width of the unsigned integers of the feed search
MaxIndex == 7           \* highest index a feed update may sit at
MaxRedundancy == 4      \* highest redundancy factor passed in
MaxGets == 2            \* get_data / get_chunk calls in progress together
MaxReplies == 3         \* values the service sends on all reply channels

\* ------------------------------------------------------------- constants
MaxErrorInit == 8
SocHeader == 97
SpanLen == 8
LeafSpanLimit == 4096
AddressLen == 32
MaxPO == 5
CreditLimit == 6
REFRESH_RATE == 1
RETRIEVE_ROUND_TIME == 2
BudgetPeers == MaxErrorInit + 1

NoPeer == 0
PeerIds == 1..MaxPeers
POVals == {0, 3, MaxPO}

VARIABLES
    peers_iter,        \* peer table, as the sequence its iteration visits
    po,                \* proximity order of each peer of the table to the address
    accounting,        \* accounting table: PeerId -> ledger
    accounting0,       \* the accounting table when the invocation started
    refresh_chan,      \* peers with a refresh request pending on refresh_chan
    pc,                \* position of the invocation
    skiplist,
    overdraftlist,
    closest_peer_id,
    selected,
    current_max_po,
    error_count,
    max_error,
    cd,
    soc,
    result,            \* value returned, NoResult until the invocation returns
    \* history of the invocation
    exchanges,         \* number of retrieve_handler calls
    reserves,          \* TRUE once reserve has been called
    refreshes,         \* TRUE once a refresh request has been sent
    sleeps,            \* TRUE once a pacing sleep has been started
    engaged,           \* peers engaged in an exchange, in order
    last_outcome,      \* class of the last exchange outcome
    scan_skip,         \* skip-list consulted by the last selection scan
    skipped,           \* peers passed over for want of a ledger entry
    resv,              \* the last reservation obtained and its settlement calls
    held,              \* locks the invocation holds at its current position
    refresh_sent,      \* refresh requests sent by the last step: peer -> count
    acct_changes       \* number of modifications of the accounting table from outside

VARIABLES
    \* retrieve_data
    store,             \* chunk address -> the bytes retrieve_chunk returns for it
    calls,             \* the retrieve_data calls, by position in the call tree
    reordered          \* TRUE once a child call returned before a sibling of lower index

VARIABLES
    \* seek_latest_feed_update
    feed,              \* indices at which the feed has an update
    redundancy,
    overflow_checks,   \* whether the build panics on integer overflow or wraps
    largest_found,
    smallest_not_found,
    lower_bound,
    upper_bound,
    angle,
    offset,            \* the loop variable i of the probe dispatch
    joiner,            \* indices of the probes pushed and not yet answered
    seek_pc,           \* position of the search
    seek_result,       \* value returned
    sent,              \* requests sent on data_retrieve_chan: index and kind
    seen_found,        \* indices whose probe was answered with bytes
    seen_absent,       \* indices whose probe was answered with nothing
    probed,            \* indices probed in the current round
    rounds,            \* rounds started
    answered,          \* probes answered in the current round: index, bytes or not
    entry              \* largest_found, smallest_not_found on entry to the round

\* get_data and get_chunk (lines 333-399)
VARIABLES
    data_retrieve_chan, \* requests sent to the retrieval service, in order
    gets,               \* per call: function, address, position, result
    chan_in             \* per call: its reply channel

chunkVars == <<peers_iter, po, accounting, accounting0, refresh_chan, pc, skiplist, overdraftlist,
          closest_peer_id, selected, current_max_po, error_count, max_error,
          cd, soc, result, exchanges, reserves, refreshes, sleeps,
          engaged, last_outcome, scan_skip, skipped, resv, held, refresh_sent,
          acct_changes>>

dataVars == <<store, calls, reordered>>

feedVars == <<feed, redundancy, overflow_checks, largest_found, smallest_not_found,
              lower_bound, upper_bound, angle, offset, joiner, seek_pc, seek_result,
              sent, seen_found, seen_absent, probed, rounds, answered, entry>>

getVars == <<data_retrieve_chan, gets, chan_in>>

vars == <<chunkVars, dataVars, feedVars, getVars>>

\* No feed is being searched.
IdleFeed ==
    /\ feed = {}
    /\ redundancy = 0
    /\ overflow_checks = FALSE
    /\ largest_found = 0
    /\ smallest_not_found = 0
    /\ lower_bound = 0
    /\ upper_bound = 0
    /\ angle = 0
    /\ offset = 0
    /\ joiner = {}
    /\ seek_pc = "idle"
    /\ seek_result = <<>>
    /\ sent = {}
    /\ seen_found = {}
    /\ seen_absent = {}
    /\ probed = {}
    /\ rounds = 0
    /\ answered = {}
    /\ entry = [largest_found |-> 0, smallest_not_found |-> 0]

\* Nobody has called get_data or get_chunk.
IdleGet ==
    /\ data_retrieve_chan = <<>>
    /\ gets = <<>>
    /\ chan_in = <<>>

\* No document is being retrieved.
IdleData ==
    /\ store = <<>>
    /\ calls = <<>>
    /\ reordered = FALSE

tableVars == <<peers_iter, po, accounting0>>
histCounters == <<exchanges, reserves, refreshes, sleeps>>

\* ------------------------------------------------------------------ bytes
\* A byte vector is described by its length, the verdicts the external
\* validators give on it for the requested address, and the offset at which
\* a slice of it starts.
EmptyVec == [cac |-> FALSE, soc |-> FALSE, len |-> 0, from |-> 0]
Chunk(is_cac, is_soc, n) == [cac |-> is_cac, soc |-> is_soc, len |-> n, from |-> 0]
Chunks ==
    { Chunk(TRUE, FALSE, SpanLen),                    \* a content-addressed chunk
      Chunk(TRUE, TRUE, SocHeader + SpanLen),         \* passes both validations
      Chunk(FALSE, TRUE, SocHeader + SpanLen),        \* a single-owner chunk
      Chunk(FALSE, TRUE, SocHeader + SpanLen - 1),    \* a single-owner chunk, too short to strip
      Chunk(FALSE, FALSE, SpanLen),                   \* passes neither validation
      Chunk(FALSE, FALSE, 0) }
BytesLen(b) == b.len - b.from
valid_cac(b) == b.cac
valid_soc(b) == b.soc

TryRecvErr == [ok |-> FALSE, data |-> EmptyVec]
Responses == {TryRecvErr} \cup {[ok |-> TRUE, data |-> c] : c \in Chunks}

NoResult == [cac |-> FALSE, soc |-> FALSE, len |-> -1, from |-> 0]
NoResv == [peer |-> NoPeer, price |-> 0, commits |-> 0, cancels |-> 0, kept |-> FALSE]

Min(a, b) == IF a < b THEN a ELSE b
Range(s) == {s[i] : i \in 1..Len(s)}

\* ---------------------------------------------------------------- ledger
price(pomap, id) == MaxPO - pomap[id] + 1

reserve(acct, id, amount) ==
    acct[id].reserve + acct[id].balance + amount <= CreditLimit

reserve_apply(acct, id, amount) ==
    [acct EXCEPT ![id].reserve = @ + amount]

cancel_reserve(acct, id, amount) ==
    [acct EXCEPT ![id].reserve = @ - amount]

apply_credit(acct, id, amount) ==
    [acct EXCEPT ![id].reserve = @ - amount, ![id].balance = @ + amount]

refresh_apply(acct, id) ==
    LET cut == 10 * REFRESH_RATE
    IN  [acct EXCEPT ![id].balance = IF @ > cut THEN @ - cut ELSE 0]

\* ------------------------------------------------------- selection scan
\* variant: the scan starts out with a selection already made
ScanInit_Selected == [selected |-> TRUE, closest_peer_id |-> NoPeer, current_max_po |-> 0]

ScanInit == [selected |-> FALSE, closest_peer_id |-> NoPeer, current_max_po |-> 0]

\* variant: the skip-list is not consulted
ScanStep_IgnoreSkip(acc, id, skip, pomap) ==
    IF pomap[id] >= acc.current_max_po
    THEN [selected |-> TRUE, closest_peer_id |-> id, current_max_po |-> pomap[id]]
    ELSE acc

\* variant: strict comparison, the first of several equidistant peers wins
ScanStep_Strict(acc, id, skip, pomap) ==
    IF id \in skip
    THEN acc
    ELSE IF pomap[id] > acc.current_max_po
         THEN [selected |-> TRUE, closest_peer_id |-> id, current_max_po |-> pomap[id]]
         ELSE acc

\* variant: the proximity order is not compared, the last peer visited wins
ScanStep_LastSeen(acc, id, skip, pomap) ==
    IF id \in skip
    THEN acc
    ELSE [selected |-> TRUE, closest_peer_id |-> id, current_max_po |-> pomap[id]]

ScanStep(acc, id, skip, pomap) ==
    IF id \in skip
    THEN acc
    ELSE IF pomap[id] >= acc.current_max_po
         THEN [selected |-> TRUE, closest_peer_id |-> id, current_max_po |-> pomap[id]]
         ELSE acc

RECURSIVE ScanPeers(_, _, _, _)
ScanPeers(iter, n, skip, pomap) ==
    IF n = 0
    THEN ScanInit
    ELSE ScanStep(ScanPeers(iter, n - 1, skip, pomap), iter[n], skip, pomap)

Scan == ScanPeers(peers_iter, Len(peers_iter), skiplist, po)

\* ------------------------------------------------------------ settlement
\* The settlement works on a record holding what lines 268-323 read and
\* write: the accounting table, cd, soc, error_count, whether the loop is
\* left by break, and the settlement calls made.
CancelIfPresent(s, id, amount) ==
    IF id \in DOMAIN s.acct
    THEN [s EXCEPT !.acct = cancel_reserve(@, id, amount), !.cancels = @ + 1]
    ELSE s

CreditIfPresent(s, id, amount) ==
    IF id \in DOMAIN s.acct
    THEN [s EXCEPT !.acct = apply_credit(@, id, amount), !.commits = @ + 1]
    ELSE s

OnRecvError(s, id, amount) ==
    LET s1 == CancelIfPresent(s, id, amount)
        s2 == [s1 EXCEPT !.error_count = @ + 1]
        s3 == CancelIfPresent(s2, id, amount)
    IN  [s3 EXCEPT !.cd = EmptyVec]

\* variant: a validation failure does not release the reservation
OnInvalid_NoCancel(s, id, amount) ==
    [s EXCEPT !.error_count = @ + 1, !.cd = EmptyVec]

\* variant: a validation failure leaves the received bytes in cd
OnInvalid_KeepBytes(s, id, amount) ==
    CancelIfPresent([s EXCEPT !.error_count = @ + 1], id, amount)

OnInvalid(s, id, amount) ==
    LET s1 == [s EXCEPT !.error_count = @ + 1]
        s2 == CancelIfPresent(s1, id, amount)
    IN  [s2 EXCEPT !.cd = EmptyVec]

OnValid(s, id, amount) ==
    [CreditIfPresent(s, id, amount) EXCEPT !.brk = TRUE]

SettleChunk(s, rcv, id, amount) ==
    IF ~rcv.ok
    THEN OnRecvError(s, id, amount)
    ELSE LET s1 == [s EXCEPT !.cd = rcv.data]
         IN  IF valid_cac(s1.cd)
             THEN OnValid(s1, id, amount)
             ELSE LET s2 == [s1 EXCEPT !.soc = valid_soc(s1.cd)]
                  IN  IF ~s2.soc
                      THEN OnInvalid(s2, id, amount)
                      ELSE OnValid(s2, id, amount)

ReturnValue(is_soc, bytes) ==
    IF is_soc /\ BytesLen(bytes) >= SocHeader + SpanLen
    THEN [bytes EXCEPT !.from = SocHeader]
    ELSE bytes

OutcomeClass(rcv) ==
    IF ~rcv.ok THEN "transport"
    ELSE IF valid_cac(rcv.data) THEN "cac"
    ELSE IF valid_soc(rcv.data) THEN "soc"
    ELSE "invalid"

\* ------------------------------------------------------------------ Init
Ledgers == {[reserve |-> 0, balance |-> 0], [reserve |-> 0, balance |-> CreditLimit]}

AscendingSeq(S) ==
    CHOOSE s \in [1..Cardinality(S) -> S] :
        /\ \A i, j \in 1..Cardinality(S) : i < j => s[i] < s[j]

InitLocals ==
    /\ refresh_chan = {}
    /\ pc = "scan"
    /\ skiplist = {}
    /\ overdraftlist = {}
    /\ closest_peer_id = NoPeer
    /\ selected = FALSE
    /\ current_max_po = 0
    /\ error_count = 0
    /\ max_error = MaxErrorInit
    /\ cd = EmptyVec
    /\ soc = FALSE
    /\ result = NoResult
    /\ exchanges = 0
    /\ reserves = FALSE
    /\ refreshes = FALSE
    /\ sleeps = FALSE
    /\ engaged = <<>>
    /\ last_outcome = "none"
    /\ scan_skip = {}
    /\ skipped = {}
    /\ resv = NoResv
    /\ held = {}
    /\ refresh_sent = <<>>
    /\ acct_changes = 0

Init ==
    /\ \E T \in SUBSET PeerIds :
          /\ peers_iter = AscendingSeq(T)
          /\ po \in [T -> POVals]
    /\ \E L \in SUBSET PeerIds : accounting \in [L -> Ledgers]
    /\ accounting0 = accounting
    /\ InitLocals
    /\ IdleData
    /\ IdleFeed
    /\ IdleGet

\* ----------------------------------------------------------------- locks
\* A MutexGuard is taken by lock() at the head of a block and dropped where
\* the block ends.
Acquire(h, lock) == h \cup {lock}

\* variant: the guard outlives its block
Drop_Leak(h, lock) == h

Drop(h, lock) == h \ {lock}

\* --------------------------------------------------------------- actions
\* variant: the selected peer is not recorded in the skip-list
SkipInsert_Forget(skip, id) == skip

SkipInsert(skip, id) == skip \cup {id}

\* lines 192-214: the scan selects a peer, which enters the skip-list
Select ==
    /\ pc = "scan"
    /\ Scan.selected
    /\ selected' = TRUE
    /\ closest_peer_id' = Scan.closest_peer_id
    /\ current_max_po' = Scan.current_max_po
    /\ scan_skip' = skiplist
    /\ UNCHANGED skipped
    /\ skiplist' = SkipInsert(skiplist, Scan.closest_peer_id)
    /\ pc' = "reserve"
    /\ held' = Drop(Acquire(held, "peers"), "peers")
    /\ refresh_sent' = <<>>
    /\ UNCHANGED <<getVars, feedVars, dataVars, tableVars, accounting, refresh_chan, overdraftlist, error_count,
                   max_error, cd, soc, result, histCounters, engaged,
                   last_outcome, resv, acct_changes>>

\* lines 192-217: nothing selected and no overdraft peer: return vec![]
ReturnNoPeer ==
    /\ pc = "scan"
    /\ ~Scan.selected
    /\ overdraftlist = {}
    /\ selected' = FALSE
    /\ closest_peer_id' = NoPeer
    /\ current_max_po' = 0
    /\ scan_skip' = skiplist
    /\ UNCHANGED skipped
    /\ result' = EmptyVec
    /\ pc' = "done"
    /\ held' = Drop(Acquire(held, "peers"), "peers")
    /\ refresh_sent' = <<>>
    /\ UNCHANGED <<getVars, feedVars, dataVars, tableVars, accounting, refresh_chan, skiplist, overdraftlist,
                   error_count, max_error, cd, soc, histCounters,
                   engaged, last_outcome, resv, acct_changes>>

\* variant: the whole skip-list is cleared on refresh
RefreshSkiplist_ClearAll(skip, over) == {}

RefreshSkiplist(skip, over) == skip \ over

\* variant: no refresh request is sent
RefreshSends_None(over) == [id \in {} |-> 1]

\* lines 219-221: one send on refresh_chan for every peer of the overdraft-list
RefreshSends(over) == [id \in over |-> 1]

\* lines 192-238: nothing selected, overdraft peers are refreshed and made
\* eligible again; the round is paced by a sleep when it finished early
RefreshOverdraft ==
    /\ pc = "scan"
    /\ ~Scan.selected
    /\ overdraftlist # {}
    /\ selected' = FALSE
    /\ closest_peer_id' = NoPeer
    /\ current_max_po' = 0
    /\ scan_skip' = skiplist
    /\ UNCHANGED skipped
    /\ held' = Drop(Acquire(held, "peers"), "peers")
    /\ refresh_sent' = RefreshSends(overdraftlist)
    /\ refresh_chan' = refresh_chan \cup DOMAIN RefreshSends(overdraftlist)
    /\ refreshes' = TRUE
    /\ skiplist' = RefreshSkiplist(skiplist, overdraftlist)
    /\ overdraftlist' = {}
    /\ \E early \in BOOLEAN :
          IF early
          THEN pc' = "sleep" /\ sleeps' = TRUE
          ELSE pc' = "scan" /\ sleeps' = sleeps
    /\ UNCHANGED <<getVars, feedVars, dataVars, tableVars, accounting, error_count, max_error, cd,
                   soc, result, exchanges, reserves, engaged, last_outcome, resv,
                   acct_changes>>

\* lines 230-238: the pacing sleep completes
Wake ==
    /\ pc = "sleep"
    /\ pc' = "scan"
    /\ UNCHANGED <<getVars, feedVars, dataVars, tableVars, accounting, refresh_chan, skiplist, overdraftlist,
                   closest_peer_id, selected, current_max_po, error_count,
                   max_error, cd, soc, result, histCounters, engaged,
                   last_outcome, scan_skip, skipped, resv, held, acct_changes>>
    /\ refresh_sent' = <<>>

\* variant: max_error is not clamped to the number of ledger entries
ClampMaxError_None(me, acct) == me

ClampMaxError(me, acct) == Min(me, Cardinality(DOMAIN acct))

\* lines 242-258: clamp max_error, reserve the price on the peer's ledger
Reserve ==
    /\ pc = "reserve"
    /\ max_error' = ClampMaxError(max_error, accounting)
    /\ LET id == closest_peer_id
           req_price == price(po, id)
       IN  IF id \in DOMAIN accounting
           THEN /\ reserves' = TRUE
                /\ IF reserve(accounting, id, req_price)
                   THEN /\ accounting' = reserve_apply(accounting, id, req_price)
                        /\ resv' = [peer |-> id, price |-> req_price, commits |-> 0,
                                    cancels |-> 0, kept |-> TRUE]
                        /\ pc' = "exchange"
                        /\ UNCHANGED overdraftlist
                   ELSE /\ overdraftlist' = overdraftlist \cup {id}
                        /\ pc' = "scan"
                        /\ UNCHANGED <<accounting, resv>>
                /\ UNCHANGED skipped
           ELSE /\ pc' = "scan"
                /\ skipped' = skipped \cup {id}
                /\ UNCHANGED <<accounting, resv, overdraftlist, reserves>>
    /\ held' = Drop(Acquire(held, "accounting"), "accounting")
    /\ UNCHANGED <<getVars, feedVars, dataVars, tableVars, refresh_chan, skiplist, closest_peer_id, selected,
                   current_max_po, error_count, cd, soc, result,
                   exchanges, refreshes, sleeps, engaged, last_outcome, scan_skip,
                   acct_changes>>
    /\ refresh_sent' = <<>>

\* lines 261-331: the network exchange completes, try_recv yields its
\* outcome, the reservation is settled and the outer loop is left or repeated
Exchange ==
    /\ pc = "exchange"
    /\ \E chunk_data \in Responses :
          LET id == closest_peer_id
              req_price == price(po, id)
              s0 == [acct |-> accounting, cd |-> cd, soc |-> soc,
                     error_count |-> error_count, brk |-> FALSE,
                     commits |-> 0, cancels |-> 0]
              s == SettleChunk(s0, chunk_data, id, req_price)
          IN  /\ last_outcome' = OutcomeClass(chunk_data)
              /\ accounting' = s.acct
              /\ cd' = s.cd
              /\ soc' = s.soc
              /\ error_count' = s.error_count
              /\ resv' = [resv EXCEPT !.commits = s.commits, !.cancels = s.cancels]
              /\ IF s.brk \/ ~(s.error_count < max_error)
                 THEN /\ pc' = "done"
                      /\ result' = ReturnValue(s.soc, s.cd)
                 ELSE /\ pc' = "scan"
                      /\ UNCHANGED result
    /\ exchanges' = exchanges + 1
    /\ engaged' = Append(engaged, closest_peer_id)
    /\ held' = Drop(Acquire(held, "accounting"), "accounting")
    /\ UNCHANGED <<getVars, feedVars, dataVars, tableVars, refresh_chan, skiplist, overdraftlist, closest_peer_id,
                   selected, current_max_po, max_error, reserves, refreshes, sleeps,
                   scan_skip, skipped, acct_changes>>
    /\ refresh_sent' = <<>>

Step == Select \/ ReturnNoPeer \/ RefreshOverdraft \/ Wake \/ Reserve \/ Exchange

\* ------------------------------------------------------------ environment
envUnchanged == <<getVars, feedVars, dataVars, tableVars, pc, skiplist, overdraftlist, closest_peer_id, selected,
                  current_max_po, error_count, max_error, cd, soc,
                  result, histCounters, engaged, last_outcome, scan_skip, skipped, held,
                  refresh_sent>>

Unsettled == pc = "exchange"

\* The engine runs on a single-threaded cooperative scheduler: the rest of
\* the program runs only while the invocation is suspended, in the pacing
\* sleep (line 230) or awaiting retrieve_handler (line 265).
Suspended == pc \in {"sleep", "exchange"}

\* Another task reaches the accounting table through accounting.lock(): it
\* blocks while the invocation holds that lock.
AccountingFree == "accounting" \notin held

\* the rest of the program removes a peer's ledger entry from the shared table
LedgerRemove ==
    /\ Suspended
    /\ AccountingFree
    /\ acct_changes < MaxAcctChanges
    /\ \E id \in DOMAIN accounting :
          /\ accounting' = [k \in DOMAIN accounting \ {id} |-> accounting[k]]
          /\ resv' = IF Unsettled /\ resv.peer = id
                     THEN [resv EXCEPT !.kept = FALSE] ELSE resv
    /\ acct_changes' = acct_changes + 1
    /\ UNCHANGED <<envUnchanged, refresh_chan>>

\* the rest of the program inserts a ledger entry for a peer
LedgerInsert ==
    /\ Suspended
    /\ AccountingFree
    /\ acct_changes < MaxAcctChanges
    /\ \E id \in PeerIds \ DOMAIN accounting :
          accounting' = [k \in DOMAIN accounting \cup {id} |->
                            IF k = id THEN [reserve |-> 0, balance |-> 0]
                            ELSE accounting[k]]
    /\ acct_changes' = acct_changes + 1
    /\ UNCHANGED <<envUnchanged, refresh_chan, resv>>

\* the receiver of refresh_chan restores the headroom of a peer
RefreshApplied ==
    /\ Suspended
    /\ AccountingFree
    /\ \E id \in refresh_chan :
          /\ refresh_chan' = refresh_chan \ {id}
          /\ accounting' = IF id \in DOMAIN accounting
                           THEN refresh_apply(accounting, id) ELSE accounting
    /\ UNCHANGED <<envUnchanged, resv, acct_changes>>

Env == LedgerRemove \/ LedgerInsert \/ RefreshApplied

Next == Step \/ Env

Spec == Init /\ [][Next]_vars


\* Termination does not depend on the values of the proximity order: the
\* liveness runs draw it from its two extremes.
InitLive ==
    /\ \E T \in SUBSET PeerIds :
          /\ peers_iter = AscendingSeq(T)
          /\ po \in [T -> {0, MaxPO}]
    /\ \E L \in SUBSET PeerIds : accounting \in [L -> Ledgers]
    /\ accounting0 = accounting
    /\ InitLocals
    /\ IdleData
    /\ IdleFeed
    /\ IdleGet

\* The invocation is scheduled as long as it can take a step: every network
\* exchange and every pacing sleep completes.
LiveSpec == InitLive /\ [][Next]_vars /\ WF_vars(Step)

\* A table of BudgetPeers peers at equal proximity, the first n of them with
\* a ledger entry, and an accounting table that nobody else modifies.
InitBudget ==
    /\ peers_iter = [i \in 1..BudgetPeers |-> i]
    /\ po = [id \in 1..BudgetPeers |-> MaxPO]
    /\ \E n \in 0..BudgetPeers :
          \E first \in Ledgers :
             accounting = [id \in 1..n |->
                              IF id = 1 THEN first ELSE [reserve |-> 0, balance |-> 0]]
    /\ accounting0 = accounting
    /\ InitLocals
    /\ IdleData
    /\ IdleFeed
    /\ IdleGet

NextBudget == Step \/ RefreshApplied

SpecBudget == InitBudget /\ [][NextBudget]_vars

\* ------------------------------------------------- retrieve_data: bytes
\* Byte vectors are sequences of 0..255. A chunk address is AddressLen
\* bytes; the address of the chunk at position p of a document spells p.
Address(p) == [i \in 1..AddressLen |-> IF i <= Len(p) THEN p[i] + 1 ELSE 0]

Spine(k) == [i \in 1..k |-> 0]

Parent(c) == SubSeq(c, 1, Len(c) - 1)
Last(c) == c[Len(c)]

\* little-endian span prefixes
SpanBytes(n) == <<n % 256, n \div 256, 0, 0, 0, 0, 0, 0>>
HugeSpan == <<0, 0, 0, 0, 0, 0, 0, 1>>

\* variant: a span equal to the limit is taken for an intermediate chunk
span_is_leaf_Strict(orig) ==
    /\ \A i \in 3..SpanLen : orig[i] = 0
    /\ orig[1] + 256 * orig[2] < LeafSpanLimit

\* line 88-89: u64::from_le_bytes(orig[0..8]) <= 4096; the limit is below
\* 256^2, so the span is within it iff bytes 2..7 are zero and the low two
\* bytes are
span_is_leaf(orig) ==
    /\ \A i \in 3..SpanLen : orig[i] = 0
    /\ orig[1] + 256 * orig[2] <= LeafSpanLimit

Prefix(orig) == SubSeq(orig, 1, SpanLen)
Strip(bytes) == SubSeq(bytes, SpanLen + 1, Len(bytes))

\* line 101
Subs(orig) == (Len(orig) - SpanLen) \div AddressLen

\* lines 105-107: orig[8 + i*32 .. 8 + (i+1)*32]
ChildAddress(orig, i) ==
    SubSeq(orig, SpanLen + i * AddressLen + 1, SpanLen + (i + 1) * AddressLen)

\* ------------------------------------------------ retrieve_data: documents
\* A document is a tree of chunks: fans[l] is the number of children of the
\* intermediate chunk at level l, which sits at the head of level l - 1.
\* At most one chunk of the document departs from the well-formed tree.
Shapes ==
    {f \in UNION {[1..d -> 0..MaxFanout] : d \in 0..MaxDepth} :
        \A l \in 1..(Len(f) - 1) : f[l] >= 1}

DocPaths(fans) ==
    {<<>>} \cup UNION {{Spine(l - 1) \o <<j>> : j \in 0..(fans[l] - 1)} : l \in 1..Len(fans)}

IsIntermediate(fans, p) == Len(p) < Len(fans) /\ p = Spine(Len(p))

RECURSIVE ChildAddresses(_, _)
ChildAddresses(p, n) ==
    IF n = 0 THEN <<>> ELSE ChildAddresses(p, n - 1) \o Address(p \o <<n - 1>>)

LeafPayload(p) == [i \in 1..(Len(p) + 1) |-> IF i <= Len(p) THEN 100 + p[i] ELSE 255]

WellFormed(fans, p) ==
    IF IsIntermediate(fans, p)
    THEN (IF Len(p) = 0 THEN SpanBytes(LeafSpanLimit + 1) ELSE HugeSpan)
            \o ChildAddresses(p, fans[Len(p) + 1])
    ELSE SpanBytes(Len(LeafPayload(p))) \o LeafPayload(p)

Flaws == {"short", "ragged", "edge", "missing"}

Flawed(chunk, flaw) ==
    CASE flaw = "short"  -> SubSeq(chunk, 1, SpanLen - 3)
      [] flaw = "ragged" -> HugeSpan \o Strip(chunk) \o <<7>>
      [] flaw = "edge"   -> SpanBytes(LeafSpanLimit) \o Strip(chunk)
      [] OTHER           -> chunk

StoreOf(fans, at, flaw) ==
    LET held_paths == {p \in DocPaths(fans) : ~(p = at /\ flaw = "missing")}
        chunk_at(p) == IF p = at THEN Flawed(WellFormed(fans, p), flaw)
                        ELSE WellFormed(fans, p)
    IN  [a \in {Address(p) : p \in held_paths} |->
            chunk_at(CHOOSE p \in held_paths : Address(p) = a)]

\* ---------------------------------------------- retrieve_data: the call
\* line 83: what retrieve_chunk returns for an address
retrieve_chunk(chunk_address) ==
    IF chunk_address \in DOMAIN store THEN store[chunk_address] ELSE <<>>

NewCall(chunk_address) ==
    [chunk_address |-> chunk_address, pc |-> "fetch", orig |-> <<>>,
     content_holder_3 |-> <<>>, data |-> <<>>]

\* variant: results are filed under their order of arrival
Insert_ByArrival(holder, index, bytes) ==
    (Cardinality(DOMAIN holder) :> bytes) @@ holder

\* line 133: content_holder_3.insert(result1, result0)
Insert(holder, index, bytes) == (index :> bytes) @@ holder

\* variant: a child that returned nothing is left out of the document
RECURSIVE Gather_SkipEmpty(_, _, _, _)
Gather_SkipEmpty(data, holder, i, subs) ==
    IF i = subs
    THEN data
    ELSE IF i \in DOMAIN holder
         THEN Gather_SkipEmpty(data \o Strip(holder[i]), holder, i + 1, subs)
         ELSE <<>>

\* lines 138-149: the children's results in index order, spans stripped
RECURSIVE Gather(_, _, _, _)
Gather(data, holder, i, subs) ==
    IF i = subs
    THEN data
    ELSE IF i \in DOMAIN holder
         THEN IF Len(holder[i]) > 0
              THEN Gather(data \o Strip(holder[i]), holder, i + 1, subs)
              ELSE <<>>
         ELSE <<>>

\* lines 136-151
Assemble(orig, holder) == Gather(Prefix(orig), holder, 0, Subs(orig))

\* Call c returns bytes. Its parent is inside joiner.next(): in the same poll
\* it files the result, and once the joiner is exhausted it assembles its
\* own result and returns in turn.
RECURSIVE Return(_, _, _)
Return(cs, c, bytes) ==
    LET cs1 == [cs EXCEPT ![c].pc = "done", ![c].data = bytes]
    IN  IF c = <<>>
        THEN cs1
        ELSE LET par == Parent(c)
                 holder == Insert(cs1[par].content_holder_3, Last(c), bytes)
                 cs2 == [cs1 EXCEPT ![par].content_holder_3 = holder]
             IN  IF Cardinality(DOMAIN holder) = Subs(cs2[par].orig)
                 THEN Return(cs2, par, Assemble(cs2[par].orig, holder))
                 ELSE cs2

Overtakes(c) ==
    /\ c # <<>>
    /\ \E j \in DOMAIN calls[Parent(c)].content_holder_3 : j > Last(c)

InitData ==
    /\ peers_iter = <<>>
    /\ po = <<>>
    /\ accounting = <<>>
    /\ accounting0 = accounting
    /\ InitLocals
    /\ \E fans \in Shapes :
          \E at \in DocPaths(fans) :
             \E flaw \in Flaws \cup {"none"} :
                store = StoreOf(fans, at, flaw)
    /\ calls = (<<>> :> NewCall(Address(<<>>)))
    /\ reordered = FALSE
    /\ IdleFeed
    /\ IdleGet

\* lines 83-95: retrieve_chunk returns; the call returns at once, or goes on
\* to yield_now
FetchReturns ==
  \E c \in DOMAIN calls :
    /\ calls[c].pc = "fetch"
    /\ LET orig == retrieve_chunk(calls[c].chunk_address)
           cs == [calls EXCEPT ![c].orig = orig]
       IN  IF Len(orig) < SpanLen
           THEN calls' = Return(cs, c, <<>>) /\ reordered' = (reordered \/ Overtakes(c))
           ELSE IF span_is_leaf(orig)
           THEN calls' = Return(cs, c, orig) /\ reordered' = (reordered \/ Overtakes(c))
           ELSE IF (Len(orig) - SpanLen) % AddressLen # 0
           THEN calls' = Return(cs, c, <<>>) /\ reordered' = (reordered \/ Overtakes(c))
           ELSE calls' = [cs EXCEPT ![c].pc = "yield"] /\ UNCHANGED reordered
    /\ UNCHANGED <<chunkVars, feedVars, getVars, store>>

\* lines 97-134: after yield_now the call pushes one retrieve_data per child
\* address on the joiner and waits in joiner.next(); with no child address
\* the joiner is exhausted at once
YieldResumes ==
  \E c \in DOMAIN calls :
    /\ calls[c].pc = "yield"
    /\ LET orig == calls[c].orig
           subs == Subs(orig)
           children == [d \in {c \o <<i>> : i \in 0..(subs - 1)} |->
                           NewCall(ChildAddress(orig, Last(d)))]
           cs == [calls EXCEPT ![c].pc = "join"] @@ children
       IN  IF subs = 0
           THEN calls' = Return(cs, c, Assemble(orig, <<>>))
                /\ reordered' = (reordered \/ Overtakes(c))
           ELSE calls' = cs /\ UNCHANGED reordered
    /\ UNCHANGED <<chunkVars, feedVars, getVars, store>>

NextData == FetchReturns \/ YieldResumes

SpecData == InitData /\ [][NextData]_vars

\* -------------------------------------------- seek_latest_feed_update
\* The search computes in unsigned integers of WordBits bits. An operation
\* whose exact result does not fit panics in a build with overflow checks
\* and wraps in a build without.
Modulus == 2^WordBits
U64_MAX == Modulus - 1

Overflows(n) == n < 0 \/ n > U64_MAX
Wrap(n) == (n + Modulus) % Modulus

\* 2_u64.pow(redundancy)
Pow2(r) == 2^r

\* The update at index n, as get_chunk and get_data deliver it.
Content(n) == <<n>>

Probe(j) == [index |-> j, kind |-> 0]
Fetch(j) == [index |-> j, kind |-> 1]

\* variant: any missing index above the record counts as the frontier
IsExact_Bracket(lf, snf) == lf < snf

\* line 460: largest_found + 1 == smallest_not_found

IsExact(lf, snf) == Wrap(lf + 1) = snf

\* lines 460-490: what the round decides once every probe has answered. The
\* result names the next position and the values of the bounds.
Decide(lf, snf, lb, ub, r, checks) ==
    LET stay(p)  == [pc |-> p, smallest_not_found |-> snf,
                     lower_bound |-> lb, upper_bound |-> ub]
        nlb      == Wrap(lf + 1)
        widened  == nlb + Wrap(Pow2(r))
    IN  IF Overflows(lf + 1) /\ checks
        THEN stay("panicked")
        ELSE IF IsExact(lf, snf)
        THEN stay("get_data")
        ELSE IF snf > nlb
        THEN [pc |-> "yield", smallest_not_found |-> snf,
              lower_bound |-> nlb, upper_bound |-> snf]
        ELSE IF snf = 0 /\ lf = 0
        THEN [pc |-> "returned", smallest_not_found |-> snf,
              lower_bound |-> nlb, upper_bound |-> ub]
        ELSE IF (Overflows(Pow2(r)) \/ Overflows(widened)) /\ checks
        THEN [pc |-> "panicked", smallest_not_found |-> U64_MAX,
              lower_bound |-> nlb, upper_bound |-> ub]
        ELSE [pc |-> "yield", smallest_not_found |-> U64_MAX,
              lower_bound |-> nlb, upper_bound |-> Wrap(widened)]

\* variant: the offset always advances by one
NextOffset_Linear(k, width, r) == k + 1

\* lines 433-437
NextOffset(k, width, r) == IF k = 0 \/ width <= r THEN k + 1 ELSE k * 2

InitFeed ==
    /\ peers_iter = <<>>
    /\ po = <<>>
    /\ accounting = <<>>
    /\ accounting0 = accounting
    /\ InitLocals
    /\ IdleData
    /\ IdleGet
    /\ feed \in SUBSET (0..MaxIndex)
    /\ redundancy \in 0..MaxRedundancy
    /\ overflow_checks \in BOOLEAN
    /\ largest_found = 0
    /\ smallest_not_found = U64_MAX
    /\ lower_bound = 0
    /\ upper_bound = Wrap(Pow2(redundancy))
    /\ seek_pc = IF Overflows(Pow2(redundancy)) /\ overflow_checks
                 THEN "panicked"
                 ELSE "yield"
    /\ angle = 0
    /\ offset = 0
    /\ joiner = {}
    /\ seek_result = <<>>
    /\ sent = {}
    /\ seen_found = {}
    /\ seen_absent = {}
    /\ probed = {}
    /\ rounds = 0
    /\ answered = {}
    /\ entry = [largest_found |-> 0, smallest_not_found |-> U64_MAX]

\* lines 414-419: yield_now resumes and a round starts
RoundStarts ==
    /\ seek_pc = "yield"
    /\ IF Overflows(upper_bound - lower_bound) /\ overflow_checks
       THEN /\ seek_pc' = "panicked"
            /\ UNCHANGED <<angle, offset, joiner, probed, rounds, answered, entry>>
       ELSE /\ angle' = Wrap(upper_bound - lower_bound)
            /\ offset' = 0
            /\ joiner' = {}
            /\ probed' = {}
            /\ rounds' = rounds + 1
            /\ answered' = {}
            /\ entry' = [largest_found |-> largest_found,
                         smallest_not_found |-> smallest_not_found]
            /\ seek_pc' = "dispatch"
    /\ UNCHANGED <<chunkVars, dataVars, getVars, feed, redundancy, overflow_checks,
                   largest_found, smallest_not_found, lower_bound, upper_bound,
                   seek_result, sent, seen_found, seen_absent>>

\* lines 423-438: one turn of the dispatch loop pushes a probe on the joiner
PushProbe ==
    /\ seek_pc = "dispatch"
    /\ ~(Overflows(lower_bound + offset) /\ overflow_checks)
    /\ Wrap(lower_bound + offset) <= upper_bound
    /\ LET j == Wrap(lower_bound + offset)
           next == NextOffset(offset, angle, redundancy)
       IN  /\ joiner' = joiner \cup {j}
           /\ probed' = probed \cup {j}
           /\ IF Overflows(next) /\ overflow_checks
              THEN seek_pc' = "panicked" /\ UNCHANGED offset
              ELSE offset' = Wrap(next) /\ UNCHANGED seek_pc
    /\ UNCHANGED <<chunkVars, dataVars, getVars, feed, redundancy, overflow_checks,
                   largest_found, smallest_not_found, lower_bound, upper_bound,
                   angle, seek_result, sent, seen_found, seen_absent, rounds,
                   answered, entry>>

\* line 423: the addition of the loop condition overflows in a checked build
DispatchPanics ==
    /\ seek_pc = "dispatch"
    /\ Overflows(lower_bound + offset) /\ overflow_checks
    /\ seek_pc' = "panicked"
    /\ UNCHANGED <<chunkVars, dataVars, getVars, feed, redundancy, overflow_checks,
                   largest_found, smallest_not_found, lower_bound, upper_bound,
                   angle, offset, joiner, seek_result, sent, seen_found,
                   seen_absent, probed, rounds, answered, entry>>

\* lines 423 and 442: the dispatch loop ends; joiner.next() polls the probes,
\* each of which sends its request (get_chunk, lines 371-375). With nothing
\* pushed the joiner is exhausted at once and the round decides.
DispatchEnds ==
    /\ seek_pc = "dispatch"
    /\ ~(Overflows(lower_bound + offset) /\ overflow_checks)
    /\ Wrap(lower_bound + offset) > upper_bound
    /\ sent' = sent \cup {Probe(j) : j \in joiner}
    /\ IF joiner # {}
       THEN /\ seek_pc' = "collect"
            /\ UNCHANGED <<smallest_not_found, lower_bound, upper_bound>>
       ELSE LET d == Decide(largest_found, smallest_not_found, lower_bound,
                            upper_bound, redundancy, overflow_checks)
            IN  /\ seek_pc' = d.pc
                /\ smallest_not_found' = d.smallest_not_found
                /\ lower_bound' = d.lower_bound
                /\ upper_bound' = d.upper_bound
    /\ UNCHANGED <<chunkVars, dataVars, getVars, feed, redundancy, overflow_checks,
                   largest_found, angle, offset, joiner, seek_result,
                   seen_found, seen_absent, probed, rounds, answered, entry>>

\* lines 449-451: an answer without bytes lowers smallest_not_found
ScoreSmallest(snf, result0, result1) ==
    IF Len(result0) = 0 /\ snf > result1 THEN result1 ELSE snf

\* variant: the answer with bytes that arrives last is the record
ScoreLargest_Latest(lf, result0, result1) ==
    IF Len(result0) > 0 THEN result1 ELSE lf

\* lines 452-454: an answer with bytes raises largest_found
ScoreLargest(lf, result0, result1) ==
    IF Len(result0) > 0 /\ lf < result1 THEN result1 ELSE lf

\* lines 442-490: a probe answers, with the update if the feed has one at its
\* index and the retrieval succeeded, with nothing otherwise; after the last
\* answer of the round the round decides
ProbeAnswers ==
    /\ seek_pc = "collect"
    /\ \E result1 \in joiner :
       \E result0 \in {<<>>} \cup {Content(n) : n \in feed \cap {result1}} :
          LET snf == ScoreSmallest(smallest_not_found, result0, result1)
              lf  == ScoreLargest(largest_found, result0, result1)
              d   == Decide(lf, snf, lower_bound, upper_bound, redundancy,
                            overflow_checks)
          IN  /\ joiner' = joiner \ {result1}
              /\ answered' = answered \cup {[index |-> result1, len |-> Len(result0)]}
              /\ largest_found' = lf
              /\ seen_found' = IF Len(result0) > 0
                               THEN seen_found \cup {result1}
                               ELSE seen_found
              /\ seen_absent' = IF Len(result0) = 0
                                THEN seen_absent \cup {result1}
                                ELSE seen_absent
              /\ IF joiner' # {}
                 THEN /\ smallest_not_found' = snf
                      /\ UNCHANGED <<seek_pc, lower_bound, upper_bound, sent>>
                 ELSE /\ seek_pc' = d.pc
                      /\ smallest_not_found' = d.smallest_not_found
                      /\ lower_bound' = d.lower_bound
                      /\ upper_bound' = d.upper_bound
                      /\ sent' = IF d.pc = "get_data"
                                 THEN sent \cup {Fetch(lf)}
                                 ELSE sent
    /\ UNCHANGED <<chunkVars, dataVars, getVars, feed, redundancy, overflow_checks,
                   angle, offset, seek_result, probed, rounds, entry>>

\* lines 461-465: get_data delivers the update, or nothing
DataAnswers ==
    /\ seek_pc = "get_data"
    /\ seek_result' \in {<<>>} \cup {Content(n) : n \in feed \cap {largest_found}}
    /\ seek_pc' = "returned"
    /\ UNCHANGED <<chunkVars, dataVars, getVars, feed, redundancy, overflow_checks,
                   largest_found, smallest_not_found, lower_bound, upper_bound,
                   angle, offset, joiner, sent, seen_found, seen_absent,
                   probed, rounds, answered, entry>>

NextFeed ==
    \/ RoundStarts
    \/ PushProbe
    \/ DispatchPanics
    \/ DispatchEnds
    \/ ProbeAnswers
    \/ DataAnswers

SpecFeed == InitFeed /\ [][NextFeed]_vars

\* The scheduler resumes the search after every yield and every request is
\* answered.
LiveFeed == InitFeed /\ [][NextFeed]_vars /\ WF_vars(NextFeed)

\* ------------------------------------------------- get_data and get_chunk
\* A call is suspended in the sleep between two polls of its reply channel
\* or has returned. The reply channel keeps what has been sent on it and not
\* received yet; sent counts the values ever sent, dropped tells that the
\* service has dropped the sender without sending.
GetIds == 1..MaxGets
\* the calls ask for different addresses
GetAddress(c) == Content(c)
Replies == {<<>>} \cup {Content(n) : n \in 0..0}
Seg == {0, 1}

\* lines 337 and 371: mpsc::channel()
NewChannel == [queue |-> <<>>, first |-> <<>>, sent |-> 0, dropped |-> FALSE]

\* lines 338-340: the request of get_data carries kind 1
get_data_request(data_address, chan_out) ==
    [address |-> data_address, kind |-> 1, chan_out |-> chan_out]

\* lines 372-374: the request of get_chunk carries kind 0
get_chunk_request(data_address, chan_out) ==
    [address |-> data_address, kind |-> 0, chan_out |-> chan_out]

\* variant: the value sent last is received
try_recv_Latest(ch) ==
    IF ch.queue = <<>>
    THEN [err |-> TRUE, value |-> <<>>, rest |-> ch]
    ELSE [err |-> FALSE, value |-> ch.queue[Len(ch.queue)],
          rest |-> [ch EXCEPT !.queue = <<>>]]

\* lines 345 and 379: chan_in.try_recv() takes the oldest value of the
\* channel; it is an error on an empty channel, whether the sender is alive
\* or dropped
try_recv(ch) ==
    IF ch.queue = <<>>
    THEN [err |-> TRUE, value |-> <<>>, rest |-> ch]
    ELSE [err |-> FALSE, value |-> Head(ch.queue),
          rest |-> [ch EXCEPT !.queue = Tail(@)]]

\* lines 351-356 and 385-390: the loop sleeps for the rest of the round
Paced(seg) == seg < RETRIEVE_ROUND_TIME

\* lines 345-357 and 379-391: one turn of the polling loop of call c
PollOnce(c, fn, data_address, ch) ==
    LET that == try_recv(ch)
    IN  /\ chan_in' = [k \in DOMAIN chan_in \cup {c} |->
                          IF k = c THEN that.rest ELSE chan_in[k]]
        /\ IF ~that.err
           THEN gets' = [k \in DOMAIN gets \cup {c} |->
                            IF k = c
                            THEN [fn |-> fn, address |-> data_address,
                                  pc |-> "returned", result |-> that.value]
                            ELSE gets[k]]
           ELSE \E seg \in Seg :
                   gets' = [k \in DOMAIN gets \cup {c} |->
                               IF k = c
                               THEN [fn |-> fn, address |-> data_address,
                                     pc |-> IF Paced(seg) THEN "sleep" ELSE "poll",
                                     result |-> <<>>]
                               ELSE gets[k]]

\* lines 333-357: get_data is called: it creates its reply channel, sends
\* the request and polls the channel for the first time
get_data ==
    /\ Len(gets) < MaxGets
    /\ LET c == Len(gets) + 1
           data_address == GetAddress(c)
       IN  /\ data_retrieve_chan' =
                  Append(data_retrieve_chan, get_data_request(data_address, c))
           /\ PollOnce(c, "get_data", data_address, NewChannel)
    /\ UNCHANGED <<chunkVars, dataVars, feedVars>>

\* lines 367-391: get_chunk is called
get_chunk ==
    /\ Len(gets) < MaxGets
    /\ LET c == Len(gets) + 1
           data_address == GetAddress(c)
       IN  /\ data_retrieve_chan' =
                  Append(data_retrieve_chan, get_chunk_request(data_address, c))
           /\ PollOnce(c, "get_chunk", data_address, NewChannel)
    /\ UNCHANGED <<chunkVars, dataVars, feedVars>>

\* lines 345-357 and 379-391: the sleep of a call is over and it polls again
GetPolls ==
    /\ \E c \in DOMAIN gets :
          /\ gets[c].pc \in {"sleep", "poll"}
          /\ PollOnce(c, gets[c].fn, gets[c].address, chan_in[c])
    /\ UNCHANGED <<chunkVars, dataVars, feedVars, data_retrieve_chan>>

\* the values sent so far on the reply channels 1..n
RECURSIVE TotalSent(_)
TotalSent(n) == IF n = 0 THEN 0 ELSE chan_in[n].sent + TotalSent(n - 1)

\* the retrieval service sends a value on the sender of a request it holds
ReplySent ==
    /\ TotalSent(Len(chan_in)) < MaxReplies
    /\ \E q \in Range(data_retrieve_chan) :
       \E v \in Replies :
          LET ch == chan_in[q.chan_out]
          IN  /\ ~ch.dropped
              /\ chan_in' = [chan_in EXCEPT ![q.chan_out] =
                                [queue |-> Append(ch.queue, v),
                                 first |-> IF ch.sent = 0 THEN <<v>> ELSE ch.first,
                                 sent |-> ch.sent + 1,
                                 dropped |-> FALSE]]
    /\ UNCHANGED <<chunkVars, dataVars, feedVars, data_retrieve_chan, gets>>

\* the retrieval service drops the sender of a request without an answer
SenderDropped ==
    /\ \E q \in Range(data_retrieve_chan) :
          /\ chan_in[q.chan_out].sent = 0
          /\ ~chan_in[q.chan_out].dropped
          /\ chan_in' = [chan_in EXCEPT ![q.chan_out].dropped = TRUE]
    /\ UNCHANGED <<chunkVars, dataVars, feedVars, data_retrieve_chan, gets>>

InitGet ==
    /\ peers_iter = <<>>
    /\ po = <<>>
    /\ accounting = <<>>
    /\ accounting0 = accounting
    /\ InitLocals
    /\ IdleData
    /\ IdleFeed
    /\ IdleGet

NextGet == get_data \/ get_chunk \/ GetPolls \/ ReplySent \/ SenderDropped

SpecGet == InitGet /\ [][NextGet]_vars

\* Every sleep of a polling loop ends and the call is resumed.
LiveGet == InitGet /\ [][NextGet]_vars /\ WF_vars(GetPolls)

\* ------------------------------------------------------------ properties
Settled == resv.peer # NoPeer /\ resv.kept /\ pc # "exchange"
Returned == pc = "done"
IsEmpty(b) == BytesLen(b) = 0

\* C1: every reservation obtained by a successful reserve is settled by
\* exactly one settlement call (one apply_credit or one cancel_reserve) on
\* every outcome of the exchange; stated for reservations whose ledger entry
\* stays in the accounting table.
C1_SettledExactlyOnce ==
    Settled => resv.commits + resv.cancels = 1

\* C2: a reservation whose ledger entry stays in the accounting table is
\* never both committed and cancelled, and at least one of commit/cancel has
\* been called for it once the invocation returns or selects another peer.
C2_NeverBothNeverNone ==
    Settled => /\ ~(resv.commits > 0 /\ resv.cancels > 0)
               /\ resv.commits + resv.cancels >= 1

C2_Witness ==
    /\ Settled
    /\ pc = "reserve"
    /\ resv.cancels > 0
    /\ closest_peer_id # resv.peer

ScanOf(skip) == ScanPeers(peers_iter, Len(peers_iter), skip, po)

\* C3: for every peer table and every skip-list, the peer chosen by the
\* selection scan is not in the skip-list consulted by that scan.
C3_NeverSkipListed ==
    /\ \A skip \in SUBSET Range(peers_iter) :
          ScanOf(skip).selected => ScanOf(skip).closest_peer_id \notin skip
    /\ pc = "reserve" => closest_peer_id \notin scan_skip

C3_Witness ==
    /\ pc = "reserve"
    /\ scan_skip # {}
    /\ closest_peer_id \in Range(peers_iter)

Eligible(skip) == {i \in 1..Len(peers_iter) : peers_iter[i] \notin skip}

IsLastMaximal(i, skip) ==
    /\ i \in Eligible(skip)
    /\ \A j \in Eligible(skip) :
          /\ po[peers_iter[j]] <= po[peers_iter[i]]
          /\ po[peers_iter[j]] = po[peers_iter[i]] => j <= i

ScanMeetsContract(r, skip) ==
    /\ r.selected <=> Eligible(skip) # {}
    /\ r.selected =>
          \E i \in 1..Len(peers_iter) :
             /\ peers_iter[i] = r.closest_peer_id
             /\ IsLastMaximal(i, skip)

\* C4: the scan selects nothing exactly when no peer of the table is outside
\* the skip-list; otherwise it selects an eligible peer of maximal proximity
\* order, the last one in iteration order among those of maximal order.
C4_MaxPOLastWins ==
    /\ \A skip \in SUBSET Range(peers_iter) : ScanMeetsContract(ScanOf(skip), skip)
    /\ pc = "reserve" =>
          ScanMeetsContract([selected |-> selected,
                             closest_peer_id |-> closest_peer_id,
                             current_max_po |-> current_max_po], scan_skip)

C4_Witness ==
    /\ pc = "reserve"
    /\ scan_skip = {}
    /\ Len(peers_iter) = 2
    /\ po[peers_iter[1]] = po[peers_iter[2]]
    /\ closest_peer_id = peers_iter[2]

\* C5: a non-empty result consists of bytes that passed valid_cac or
\* valid_soc in the last exchange; when the last exchange failed validation
\* or transport the result is empty.
C5_OnlyValidReturned ==
    Returned =>
       /\ ~IsEmpty(result) =>
             /\ last_outcome \in {"cac", "soc"}
             /\ valid_cac(result) \/ valid_soc(result)
       /\ last_outcome \in {"transport", "invalid"} => IsEmpty(result)

C5_Witness ==
    /\ Returned
    /\ last_outcome = "invalid"
    /\ exchanges > 1
    /\ IsEmpty(result)

\* C6: with an empty peer table the invocation returns an empty result in
\* its first step: no exchange, no reserve, no refresh request and no pacing
\* sleep happen before it returns.
C6_EmptyTableImmediate ==
    Len(peers_iter) = 0 =>
       /\ pc \in {"scan", "done"}
       /\ pc = "scan" => ENABLED ReturnNoPeer
       /\ Returned => IsEmpty(result)
       /\ exchanges = 0
       /\ ~reserves /\ ~refreshes /\ ~sleeps

C6_Witness ==
    /\ Len(peers_iter) = 0
    /\ Returned
    /\ IsEmpty(result)


\* C7: with an accounting table of n ledger entries that nobody else
\* modifies, an invocation performs at most min(8, n) exchanges and returns
\* an empty result once error_count reaches that clamped maximum.
C7_ErrorBudget ==
    LET n == Cardinality(DOMAIN accounting0)
        m == Min(MaxErrorInit, n)
    IN  acct_changes = 0 =>
           /\ exchanges <= m
           /\ error_count <= m
           /\ (error_count = m /\ m > 0) => Returned
           /\ (error_count = m /\ Returned) => IsEmpty(result)

C7_Witness ==
    /\ Cardinality(DOMAIN accounting0) > MaxErrorInit
    /\ acct_changes = 0
    /\ exchanges = MaxErrorInit
    /\ error_count = MaxErrorInit
    /\ Returned
    /\ IsEmpty(result)

\* C8 as stated: every invocation eventually returns, for every sequence of
\* reserve and exchange outcomes.
C8_AlwaysReturns == <>Returned

\* C8, amended: every invocation eventually returns unless reserve keeps
\* being refused, that is unless the overdraft-list is non-empty again and
\* again.
C8_ReturnsUnlessRefusedForever ==
    ([]<>(overdraftlist # {})) \/ <>Returned

C8_Witness ==
    /\ Returned
    /\ refreshes
    /\ exchanges > 0

Scenario(a, b) ==
    /\ a # b
    /\ Range(peers_iter) = {a, b}
    /\ po[a] = 3
    /\ po[b] = 5
    /\ {a, b} \subseteq DOMAIN accounting0
    /\ accounting0[a].balance = 0
    /\ accounting0[b].balance = 0
    /\ acct_changes = 0

\* C9: with the peer table {A at PO 3, B at PO 5}, both peers with a ledger
\* entry and sufficient credit, B is engaged first; if B's bytes fail
\* validation the next peer engaged is A, selected with skip-list {B}.
C9_ScenarioBThenA ==
    \A a, b \in PeerIds :
       Scenario(a, b) =>
          /\ (Len(engaged) = 0 /\ pc \in {"reserve", "exchange"}) =>
                closest_peer_id = b /\ scan_skip = {}
          /\ Len(engaged) >= 1 => engaged[1] = b
          /\ (Len(engaged) = 1 /\ last_outcome = "invalid") =>
                \/ pc = "scan" /\ skiplist = {b}
                \/ /\ pc \in {"reserve", "exchange"}
                   /\ closest_peer_id = a
                   /\ scan_skip = {b}
          /\ Len(engaged) >= 2 => engaged[2] = a

C9_Witness ==
    \E a, b \in PeerIds :
       /\ Scenario(a, b)
       /\ engaged = <<b>>
       /\ last_outcome = "invalid"
       /\ pc = "exchange"
       /\ closest_peer_id = a
       /\ scan_skip = {b}

\* C10 as stated: the skip-list only grows, no peer is ever removed from it.
C10_OnlyGrows == [][skiplist \subseteq skiplist']_vars

\* C10, amended: a peer leaves the skip-list only when the eligible set is
\* exhausted and the peer is in the overdraft-list; every other peer of the
\* skip-list stays in it until the invocation returns.
C10_OnlyOverdraftLeaves ==
    [][\A id \in skiplist \ skiplist' :
          /\ id \in overdraftlist
          /\ pc = "scan"
          /\ ~Scan.selected]_vars

C10_Witness ==
    /\ refreshes
    /\ ~selected
    /\ pc \in {"scan", "sleep"}
    /\ overdraftlist = {}
    /\ skiplist # {}
    /\ skiplist # Range(peers_iter)

\* C11: when the scan finds no eligible peer and the overdraft-list is not
\* empty, the invocation does not return: the round sends exactly one refresh
\* request to every peer of the overdraft-list and to no other, takes exactly
\* those peers out of the skip-list, empties the overdraft-list, leaves the
\* error count alone and goes back to selection; a refused reserve does not
\* change the error count either.
C11_RefreshRound ==
    [][/\ (pc = "scan" /\ ~Scan.selected /\ overdraftlist # {}) =>
             /\ pc' \in {"scan", "sleep"}
             /\ result' = NoResult
             /\ DOMAIN refresh_sent' = overdraftlist
             /\ \A id \in overdraftlist : refresh_sent'[id] = 1
             /\ refresh_chan' = refresh_chan \cup overdraftlist
             /\ skiplist' = skiplist \ overdraftlist
             /\ overdraftlist' = {}
             /\ error_count' = error_count
       /\ pc = "reserve" => error_count' = error_count]_vars

C11_Witness ==
    /\ pc = "sleep"
    /\ refresh_sent # <<>>
    /\ overdraftlist = {}
    /\ error_count = 1
    /\ skiplist # {}
    /\ DOMAIN refresh_sent \subseteq refresh_chan

\* C12: at every suspension point of the invocation (the pacing sleep and the
\* network exchange) it holds neither the peer-table lock nor the
\* accounting-table lock, so another task that wants either lock gets it.
C12_NoLockAcrossAwait == Suspended => (held = {} /\ AccountingFree)

C12_Witness ==
    /\ pc = "exchange"
    /\ held = {}
    /\ acct_changes >= 1
    /\ reserves

NoDuplicates(q) == \A i, j \in 1..Len(q) : q[i] = q[j] => i = j

\* What the invocation has reserved and not yet settled on the ledger of id,
\* for a ledger no other task has replaced.
Outstanding(id) == accounting[id].reserve - accounting0[id].reserve

\* C20: no peer is engaged in a network exchange twice by one invocation, an
\* exchange is in flight only for the one reservation obtained last, and
\* outside an exchange nothing is left reserved.
C20_OnePeerOnceSequential ==
    /\ NoDuplicates(engaged)
    /\ Len(engaged) = exchanges
    /\ pc = "exchange" => (resv.peer = closest_peer_id
                           /\ closest_peer_id \notin Range(engaged))
    /\ acct_changes = 0 =>
          \A id \in DOMAIN accounting :
             Outstanding(id) <= IF pc = "exchange" /\ id = resv.peer
                                THEN resv.price
                                ELSE 0

C20_Witness ==
    /\ pc = "exchange"
    /\ Len(engaged) = 1
    /\ acct_changes = 0
    /\ Outstanding(resv.peer) = resv.price
    /\ engaged[1] # resv.peer

\* The span of a chunk as a number, capped just above the leaf limit.
SpanCapped(orig) ==
    IF \E i \in 3..SpanLen : orig[i] # 0
    THEN LeafSpanLimit + 1
    ELSE Min(orig[1] + 256 * orig[2], LeafSpanLimit + 1)

IsDone(c) == c \in DOMAIN calls /\ calls[c].pc = "done"

\* A returned call whose chunk is intermediate and carries whole addresses.
Joined(c) ==
    /\ IsDone(c)
    /\ Len(calls[c].orig) >= SpanLen
    /\ SpanCapped(calls[c].orig) > LeafSpanLimit
    /\ (Len(calls[c].orig) - SpanLen) % AddressLen = 0

ChildReturnedEmpty(c) ==
    \E i \in 0..(Subs(calls[c].orig) - 1) : calls[c \o <<i>>].data = <<>>

\* What the first n children of call c returned, spans stripped, by index.
RECURSIVE InAddressOrder(_, _)
InAddressOrder(c, n) ==
    IF n = 0
    THEN <<>>
    ELSE InAddressOrder(c, n - 1) \o Strip(calls[c \o <<n - 1>>].data)

\* C13: a call on an intermediate chunk with N child addresses, all of whose
\* children returned something, returns the chunk's 8-byte span followed by
\* the children's results, each without its first 8 bytes, in the order
\* 0..N-1 of the addresses, whatever the order the children returned in.
C13_AddressOrder ==
    \A c \in DOMAIN calls :
       (Joined(c) /\ ~ChildReturnedEmpty(c)) =>
          calls[c].data = Prefix(calls[c].orig)
                             \o InAddressOrder(c, Subs(calls[c].orig))

C13_Witness ==
    /\ Joined(<<>>)
    /\ Subs(calls[<<>>].orig) >= 2
    /\ <<0, 0>> \notin DOMAIN calls
    /\ reordered
    /\ calls[<<>>].data # <<>>

\* The document the store holds under an address: nothing if its chunk is
\* shorter than 8 bytes, or intermediate and ragged, or if any of its
\* children has nothing; the chunk itself if it is a leaf; otherwise the
\* span followed by the children's documents without their spans.
RECURSIVE Document(_)
RECURSIVE Documents(_, _)
Document(a) ==
    LET orig == retrieve_chunk(a)
    IN  IF Len(orig) < SpanLen THEN <<>>
        ELSE IF SpanCapped(orig) <= LeafSpanLimit THEN orig
        ELSE IF (Len(orig) - SpanLen) % AddressLen # 0 THEN <<>>
        ELSE IF \E i \in 0..(Subs(orig) - 1) : Document(ChildAddress(orig, i)) = <<>>
             THEN <<>>
             ELSE Prefix(orig) \o Documents(orig, Subs(orig))

Documents(orig, n) ==
    IF n = 0
    THEN <<>>
    ELSE Documents(orig, n - 1) \o Strip(Document(ChildAddress(orig, n - 1)))

\* C14: retrieve_data returns the whole document or nothing: nothing when a
\* call at any depth returned nothing, and in every case exactly the
\* document the store holds under the address.
C14_WholeOrNothing ==
    IsDone(<<>>) =>
       /\ calls[<<>>].data = Document(calls[<<>>].chunk_address)
       /\ (\E d \in DOMAIN calls : calls[d].data = <<>>) => calls[<<>>].data = <<>>

C14_Witness ==
    /\ IsDone(<<>>)
    /\ calls[<<>>].data = <<>>
    /\ Joined(<<>>)
    /\ \E d, e \in DOMAIN calls :
          /\ Len(d) = 2 /\ Len(e) = 2
          /\ calls[d].data = <<>>
          /\ calls[e].data # <<>>

\* C15: a call whose chunk has at least 8 bytes and a span of at most 4096
\* returns the chunk as retrieve_chunk gave it and starts no child call.
C15_LeafVerbatim ==
    \A c \in DOMAIN calls :
       (calls[c].pc # "fetch"
           /\ Len(calls[c].orig) >= SpanLen
           /\ SpanCapped(calls[c].orig) <= LeafSpanLimit) =>
          /\ calls[c].pc = "done"
          /\ calls[c].data = calls[c].orig
          /\ \A d \in DOMAIN calls : d # <<>> => Parent(d) # c

C15_Witness ==
    \E c \in DOMAIN calls :
       /\ IsDone(c)
       /\ Len(calls[c].orig) >= SpanLen + AddressLen
       /\ SpanCapped(calls[c].orig) = LeafSpanLimit
       /\ calls[c].data = calls[c].orig

\* Some request for an update the feed has was answered with nothing.
Untruthful ==
    \/ seen_absent \cap feed # {}
    \/ /\ seek_pc = "returned"
       /\ Fetch(largest_found) \in sent
       /\ largest_found \in feed
       /\ seek_result = <<>>

SeekReturned == seek_pc = "returned"

RECURSIVE CeilLog2(_)
CeilLog2(n) == IF n <= 1 THEN 0 ELSE 1 + CeilLog2((n + 1) \div 2)

\* The feed has its updates at 0..k-1 for some k >= 1, and nowhere else.
PrefixFeed == feed # {} /\ feed = 0..(Cardinality(feed) - 1)

\* C16: for a feed with updates at 0..k-1 and none from k on (k >= 1),
\* truthful answers and a redundancy of at least 1, the search returns the
\* update at k-1, within a number of rounds of the order of log2(k).
C16_PrefixFeedConverges ==
    <>(\/ ~(PrefixFeed /\ redundancy >= 1)
       \/ Untruthful
       \/ /\ SeekReturned
          /\ seek_result = Content(Cardinality(feed) - 1)
          /\ rounds <= CeilLog2(Cardinality(feed)) + 1)

Newest == CHOOSE m \in feed : \A n \in feed : n <= m

\* Every index below the newest update that has no update has one on both
\* sides.
IsolatedGaps ==
    /\ feed # {}
    /\ \A n \in 0..Newest :
          n \notin feed => (n - 1 \in feed /\ n + 1 \in feed)

\* C17: for a feed whose missing indices below its newest update are isolated
\* gaps, and truthful answers, the search returns the newest update.
C17_ToleratesIsolatedGaps ==
    (IsolatedGaps /\ SeekReturned /\ ~Untruthful) => seek_result = Content(Newest)

\* The feed has updates at 0, 1 and 2 only, the redundancy is 2 and every
\* answer so far was truthful.
Scenario18 == feed = {0, 1, 2} /\ redundancy = 2 /\ ~Untruthful

RoundOver(n) == rounds = n /\ seek_pc = "yield"
RoundAsked(n) == rounds = n /\ seek_pc \in {"collect", "yield", "get_data", "returned"}

\* C18 as stated: the first round probes 0, 1 and 3 and ends with
\* largest_found = 1, smallest_not_found = 3, lower_bound = 2 and
\* upper_bound = 3; the second round probes 2, finds the frontier exact and
\* returns the update at 2.
C18_Probes013 ==
    Scenario18 =>
       /\ rounds <= 2
       /\ RoundAsked(1) => probed = {0, 1, 3}
       /\ RoundOver(1) => /\ largest_found = 1
                          /\ smallest_not_found = 3
                          /\ lower_bound = 2
                          /\ upper_bound = 3
       /\ RoundAsked(2) => probed = {2}
       /\ seek_pc \in {"get_data", "returned"} => (rounds = 2 /\ largest_found = 2)
       /\ SeekReturned => seek_result = Content(2)

\* C18, amended: the first round probes 0, 1, 2 and 4 and ends with
\* largest_found = 2, smallest_not_found = 4, lower_bound = 3 and
\* upper_bound = 4; the second round probes 3 and 4, finds the frontier exact
\* with smallest_not_found = 3 and returns the update at 2.
C18_Probes0124 ==
    Scenario18 =>
       /\ rounds <= 2
       /\ RoundAsked(1) => (probed = {0, 1, 2, 4} /\ seek_pc \in {"collect", "yield"})
       /\ RoundOver(1) => /\ largest_found = 2
                          /\ smallest_not_found = 4
                          /\ lower_bound = 3
                          /\ upper_bound = 4
       /\ RoundAsked(2) => (probed = {3, 4} /\ seek_pc # "yield")
       /\ seek_pc \in {"get_data", "returned"} =>
             /\ rounds = 2
             /\ largest_found = 2
             /\ smallest_not_found = 3
             /\ Fetch(2) \in sent
       /\ SeekReturned => seek_result = Content(2)

C18_Witness ==
    /\ Scenario18
    /\ SeekReturned
    /\ rounds = 2
    /\ probed = {3, 4}
    /\ seek_result = Content(2)

FullContentRequested == \E q \in sent : q.kind = 1

\* C19: for a feed with no update at all the search returns nothing at the
\* end of its first round, without asking for any full content; and it
\* returns through that branch only when the probe of index 0 was answered
\* with nothing and no probe was answered with an update.
C19_EmptyFeedReturnsEmpty ==
    /\ <>(\/ feed # {}
          \/ /\ SeekReturned
             /\ seek_result = <<>>
             /\ rounds = 1
             /\ ~FullContentRequested)
    /\ []((SeekReturned /\ ~FullContentRequested) =>
             (0 \in seen_absent /\ seen_found = {}))

\* The part of C19 that does not depend on the search coming to an end: the
\* empty return is taken only when nothing was found, and an empty feed
\* never gets a second round or a full-content request.
C19_BranchOnlyWhenNothingFound ==
    /\ (SeekReturned /\ ~FullContentRequested) => (0 \in seen_absent /\ seen_found = {})
    /\ feed = {} => (rounds <= 1 /\ ~FullContentRequested /\ seek_result = <<>>)

\* ------------------------------------------------- peers without a ledger
\* The invocation is about to handle a selected peer that has no entry in
\* the accounting table (line 249 finds no key).
NoLedgerSelected == pc = "reserve" /\ closest_peer_id \notin DOMAIN accounting

\* No peer of the table has a ledger entry.
NoLedgerAtAll == DOMAIN accounting \cap Range(peers_iter) = {}

\* the handling of one such peer: back to the scan with the peer in the
\* skip-list, nothing reserved, nothing sent, no error counted
C21_SkipStep ==
    NoLedgerSelected =>
        /\ pc' = "scan"
        /\ closest_peer_id \in skiplist'
        /\ closest_peer_id \notin overdraftlist'
        /\ accounting' = accounting
        /\ resv' = resv
        /\ reserves' = reserves
        /\ exchanges' = exchanges
        /\ engaged' = engaged
        /\ error_count' = error_count

\* a selection never picks a peer that was passed over before
C21_NotAgain ==
    (pc = "scan" /\ pc' = "reserve") => closest_peer_id' \notin skipped

\* C21: a selected peer without a ledger entry is skipped explicitly: it is
\* in the skip-list, no reserve is attempted and no request is sent for it,
\* the error count stays, and the invocation never selects it again; a fetch
\* in which no peer has a ledger entry therefore selects every peer at most
\* once and returns the empty result.
C21_NoLedgerIsSkipped ==
    /\ [][C21_SkipStep /\ C21_NotAgain]_vars
    /\ [](/\ skipped \subseteq skiplist \ overdraftlist
          /\ skipped \cap Range(engaged) = {})
    /\ NoLedgerAtAll =>
          /\ [](/\ exchanges = 0
                /\ ~reserves
                /\ error_count = 0
                /\ Returned => (IsEmpty(result) /\ skipped = Range(peers_iter)))
          /\ <>Returned

C21_Witness ==
    /\ Returned
    /\ IsEmpty(result)
    /\ NoLedgerAtAll
    /\ Cardinality(skipped) = MaxPeers
    /\ skipped = Range(peers_iter)

\* ------------------------------------------------ ledger versus holdings
\* The price the invocation holds reserved and unsettled on the ledger of id:
\* the reservation of the exchange in flight, nothing otherwise.
HeldUnsettled(id) ==
    IF pc = "exchange" /\ resv.peer = id THEN resv.price ELSE 0

\* C27: as long as no other task replaces a ledger, the reserved amount of
\* every peer exceeds its initial value by exactly the prices of the
\* reservations held unsettled for that peer; a failed exchange releases the
\* price once, and the amount is back to its initial value on return.
C27_ReservedEqualsHeld ==
    acct_changes = 0 =>
        \A id \in DOMAIN accounting : Outstanding(id) = HeldUnsettled(id)

\* -------------------------------------------------- the returned update
\* The locator returned the content it fetched at index n.
ReturnedContentAt(n) ==
    /\ SeekReturned
    /\ seek_result # <<>>
    /\ Fetch(n) \in sent

\* C22: when the locator returns the content fetched at an index n, a probe
\* of n was answered with bytes and a probe of n + 1 was answered with
\* nothing during the search; the full content is requested at no other
\* index.
C22_ReturnsAtExactFrontier ==
    /\ \A q \in sent : q.kind = 1 =>
          /\ q.index \in seen_found
          /\ q.index + 1 \in seen_absent
    /\ \A n \in 0..U64_MAX : ReturnedContentAt(n) =>
          /\ n = largest_found
          /\ n \in seen_found
          /\ n + 1 \in seen_absent
          /\ seek_result = Content(n)

C22_Witness ==
    /\ ReturnedContentAt(largest_found)
    /\ rounds >= 2
    /\ largest_found > 0
    /\ largest_found + 1 \in seen_absent \cap feed

\* ------------------------------------------------------ progress of rounds
\* A round ends without returning: the step that takes the last answer (or
\* finds nothing dispatched) and goes back to the head of the loop.
RoundContinues == seek_pc \in {"dispatch", "collect"} /\ seek_pc' = "yield"

\* line 476 was taken: the new upper bound is smallest_not_found, which lines
\* 474-476 leave as it is (line 485 resets it to the sentinel instead).
NarrowingCase ==
    /\ upper_bound' = smallest_not_found'
    /\ ~(smallest_not_found' = U64_MAX /\
         Wrap(lower_bound' + Pow2(redundancy)) = U64_MAX)

WindowShrinks == upper_bound' - lower_bound' < upper_bound - lower_bound
LowerBoundAdvances == lower_bound' > lower_bound

\* One of the two happens in every round that does not return.
C23_OneOfTheTwo == [][RoundContinues => (WindowShrinks \/ LowerBoundAdvances)]_vars

\* C23: a round that does not return makes the window upper_bound -
\* lower_bound strictly smaller when it narrows (smallest_not_found above the
\* new lower_bound) and strictly increases lower_bound when it widens.
C23_ShrinksOrAdvances ==
    [][RoundContinues =>
         IF NarrowingCase THEN WindowShrinks ELSE LowerBoundAdvances]_vars

\* ------------------------------------------------------ probes of a round
InRound == seek_pc \in {"dispatch", "collect"}

\* The offsets from lower_bound that the dispatch loop steps through: every
\* offset for a window of width at most r, offset 0 and the powers of two
\* otherwise.
StepOffsets(width, r) ==
    IF width <= r
    THEN 0..U64_MAX
    ELSE {o \in 0..U64_MAX : o = 0 \/ \E e \in 0..WordBits : o = 2^e}

\* C24: the probes of a round start at lower_bound and advance by a step of
\* 1 while the window width is at most r and by a doubling step otherwise,
\* every probed index lies in lower_bound..upper_bound, and every probe is a
\* get_chunk request (kind 0): no full-content request is sent in a round.
C24_ProbePattern ==
    InRound =>
        /\ angle = upper_bound - lower_bound
        /\ \E k \in 0..Modulus :
              probed = {lower_bound + o :
                           o \in {x \in StepOffsets(angle, redundancy) : x < k}}
        /\ probed \subseteq lower_bound..upper_bound
        /\ joiner \subseteq probed
        /\ \A q \in sent : q.kind = 0
        /\ seek_pc = "collect" => \A j \in probed : Probe(j) \in sent

\* ------------------------------------------------------ scores of a round
SetMax(S) == CHOOSE x \in S : \A y \in S : y <= x
SetMin(S) == CHOOSE x \in S : \A y \in S : x <= y

\* The scores that the answers in A give, whatever their order of arrival:
\* the maximum of the record on entry and the indices answered with bytes,
\* the minimum of the bound on entry and the indices answered with nothing.
LargestOf(A) ==
    SetMax({entry.largest_found} \cup {a.index : a \in {b \in A : b.len > 0}})
SmallestOf(A) ==
    SetMin({entry.smallest_not_found} \cup {a.index : a \in {b \in A : b.len = 0}})

\* while answers are outstanding the scores are those of the answers so far
C25_ScoresSoFar ==
    seek_pc = "collect" =>
        /\ joiner # {}
        /\ {a.index : a \in answered} = probed \ joiner
        /\ largest_found = LargestOf(answered)
        /\ smallest_not_found = SmallestOf(answered)

\* an answer that leaves probes outstanding changes no bound and starts no
\* round; the last answer decides on the scores of all the answers
C25_AnswerStep ==
    seek_pc = "collect" =>
        IF joiner' # {}
        THEN /\ seek_pc' = "collect"
             /\ UNCHANGED <<lower_bound, upper_bound, rounds, sent>>
        ELSE LET d == Decide(LargestOf(answered'), SmallestOf(answered'),
                             lower_bound, upper_bound, redundancy, overflow_checks)
             IN  /\ {a.index : a \in answered'} = probed
                 /\ largest_found' = LargestOf(answered')
                 /\ seek_pc' = d.pc
                 /\ smallest_not_found' = d.smallest_not_found
                 /\ lower_bound' = d.lower_bound
                 /\ upper_bound' = d.upper_bound

\* a round is dispatched only when no probe of the round before is outstanding
C25_RoundStep ==
    rounds' # rounds => (seek_pc = "yield" /\ joiner = {})

\* C25: rounds are sequential and insensitive to the order of arrival: the
\* bounds change and the next round is dispatched only after every probe of
\* the round has delivered its result, and largest_found and
\* smallest_not_found after the round are the maximum of the previous record
\* and the non-empty probe indices and the minimum of the previous bound and
\* the empty probe indices.
C25_SequentialOrderFree ==
    /\ []C25_ScoresSoFar
    /\ [][C25_AnswerStep /\ C25_RoundStep]_vars

C25_Witness ==
    /\ seek_pc = "yield"
    /\ rounds >= 2
    /\ Cardinality(answered) >= 3
    /\ \E a, b \in answered : a.len > 0 /\ b.len = 0 /\ a.index > b.index
    /\ \E a, b \in answered : a.len > 0 /\ b.len > 0 /\ a.index # b.index

\* --------------------------------------------------- unsigned arithmetic
Dispatching == seek_pc = "dispatch"

\* No computation of a round has left the range of a u64: a build with
\* overflow checks has not panicked in a round, and in a build without them
\* the sum of the loop test is in range and the loop counter has not wrapped
\* to 0.
NoOverflowSoFar ==
    /\ rounds > 0 => seek_pc # "panicked"
    /\ Dispatching =>
          /\ ~Overflows(lower_bound + offset)
          /\ probed # {} => offset > 0

\* C28: in every round lower_bound <= upper_bound holds when the round
\* starts, the dispatch loop ends after finitely many probes, and none of
\* upper_bound - lower_bound, lower_bound + i, i * 2, largest_found + 1 and
\* lower_bound + 2^r leaves the range of a u64, also in the rounds after a
\* round whose probes were all answered with bytes.
C28_BoundsAndArithmetic ==
    /\ [](seek_pc = "yield" => lower_bound <= upper_bound)
    /\ []NoOverflowSoFar
    /\ [](Dispatching => <>(~Dispatching))

\* ------------------------------------------------ request and first reply
GetReturned(c) == c \in DOMAIN gets /\ gets[c].pc = "returned"

\* The request that call c has to send.
RequestOf(c) ==
    [address |-> gets[c].address,
     kind |-> IF gets[c].fn = "get_data" THEN 1 ELSE 0,
     chan_out |-> c]

\* every call has sent its one request, on a sender of its own, and a call
\* that has returned returns the first value sent on its reply channel
C26_OneRequestFirstReply ==
    /\ Len(data_retrieve_chan) = Len(gets)
    /\ DOMAIN chan_in = DOMAIN gets
    /\ \A c \in DOMAIN gets :
          /\ data_retrieve_chan[c] = RequestOf(c)
          /\ GetReturned(c) =>
                /\ chan_in[c].sent >= 1
                /\ <<gets[c].result>> = chan_in[c].first

\* a request sent is never withdrawn, changed or repeated
C26_RequestStays ==
    \A c \in DOMAIN data_retrieve_chan :
        data_retrieve_chan'[c] = data_retrieve_chan[c]

\* C26: get_data and get_chunk each send exactly one request (the address,
\* kind 1 for get_data and kind 0 for get_chunk, a fresh reply sender) and
\* return exactly the first value delivered on their own reply channel: they
\* do not return before a reply is available, and once a reply is delivered
\* they eventually return it.
C26_RequestThenFirstReply ==
    /\ []C26_OneRequestFirstReply
    /\ [][C26_RequestStays]_vars
    /\ \A c \in GetIds :
          []((c \in DOMAIN gets /\ chan_in[c].sent >= 1) => <>GetReturned(c))

C26_Witness ==
    \E c, d \in DOMAIN gets :
       /\ gets[c].fn = "get_data" /\ gets[d].fn = "get_chunk"
       /\ GetReturned(c) /\ GetReturned(d)
       /\ chan_in[c].sent = 2
       /\ chan_in[c].queue # <<>>
       /\ chan_in[c].queue[1] # gets[c].result
       /\ chan_in[d].first # chan_in[c].first

====
